---------------------------- MODULE Spec2Model ----------------------------
(***************************************************************************)
(* A model of the kidsfeed backend's domain layer:                         *)
(*   - the inventory endpoints (validators, InventoryItemService and the   *)
(*     Mongoose-backed InventoryItemRepository),                           *)
(*   - the Recipe entity,                                                  *)
(*   - the DietaryFlags and NutritionalInfo value objects.                 *)
(* JavaScript values are tagged records [t, v] so that undefined, null,    *)
(* numbers and date strings stay distinct, and the JavaScript operators    *)
(* the code uses on them (||, ??, ===, <=, <, truthiness) are operators of *)
(* the model with JavaScript's meaning.                                    *)
(***************************************************************************)
EXTENDS Integers, Sequences, FiniteSets, TLC

VARIABLES
    items,      \* the InventoryItem collection: id -> stored document or Absent
    now,        \* the clock read by `new Date()`
    invLast,    \* the last inventory request and what its handler did
    calc,       \* a call of _calculateStatus: its argument, the instant, the result
    recipe,     \* a Recipe entity
    recipeLast, \* the last method called on it: argument, outcome, the entity before
    adjusts,    \* how many times adjustServingSize has been called on it
    compliance, \* a call of DietaryFlags.isCompliantWith
    nutrition,  \* a call of the NutritionalInfo constructor
    recipes,    \* MockRecipeRepository: this.recipes
    nextId,     \* MockRecipeRepository: this.nextId
    collection, \* the 'recipes' collection behind RecipeSchema, oldest document first
    creating,   \* the RecipeSchema.create calls that have not settled yet
    strictQuery,\* whether the Mongoose build drops filter paths the schema lacks
    repoLast,   \* the last repository call: arguments, outcome, the store before
    execution,  \* the last CreateRecipeUseCase.execute: its input and what it did
    flight      \* inventory requests between two awaits: patches that have read
                \* and not written, and the counts of a getInventoryStats

invVars == <<items, now, invLast, flight>>
recipeVars == <<recipe, recipeLast, adjusts>>
valueVars == <<calc, compliance, nutrition>>
repoVars == <<recipes, nextId, collection, creating, strictQuery, repoLast, execution>>

vars ==
    <<items, now, invLast, calc, recipe, recipeLast, adjusts, compliance, nutrition,
      recipes, nextId, collection, creating, strictQuery, repoLast, execution, flight>>

-----------------------------------------------------------------------------
(* Bounds *)

\* dates and the clock range over 0 .. MaxTime
MaxTime == 1
\* _calculateStatus is applied to quantities and reorder levels 0 .. MaxQuantity
MaxQuantity == 20

-----------------------------------------------------------------------------
(* JavaScript values *)

Undefined == [t |-> "undefined", v |-> 0]
Null == [t |-> "null", v |-> 0]
Num(n) == [t |-> "number", v |-> n]
\* a string that Date.parse accepts, or a stored Date, denoting instant d
DateAt(d) == [t |-> "date", v |-> d]
\* a non-empty string that Date.parse does not accept
BadDate == [t |-> "string", v |-> 0]
\* a status string
Str(s) == [t |-> "status", v |-> s]

IsNumber(x) == x.t = "number"

\* true and false
Bool(b) == [t |-> "boolean", v |-> IF b THEN 1 ELSE 0]

\* JavaScript truthiness
Truthy(x) ==
    CASE x.t = "undefined" -> FALSE
      [] x.t = "null" -> FALSE
      [] x.t = "number" -> x.v # 0
      [] x.t = "boolean" -> x.v # 0
      [] OTHER -> TRUE

\* a || b
OrElse(a, b) == IF Truthy(a) THEN a ELSE b

Nullish(x) == x.t \in {"undefined", "null"}

\* a ?? b
Coalesce(a, b) == IF Nullish(a) THEN b ELSE a

\* a === 0
StrictEqZero(x) == x.t = "number" /\ x.v = 0

\* a <= b on numbers, null (0) and undefined (NaN: every comparison is false)
Comparable(x) == x.t \in {"number", "null"}
ToNumber(x) == IF x.t = "number" THEN x.v ELSE 0
LessEq(a, b) == Comparable(a) /\ Comparable(b) /\ ToNumber(a) <= ToNumber(b)

\* new Date(e) < new Date(): an unparsable string is an Invalid Date (NaN)
DateBefore(e, at) == e.t = "date" /\ e.v < at

\* isNaN(Date.parse(x)) for the values a JSON body can carry here
DateParses(x) == x.t = "date"

-----------------------------------------------------------------------------
(* Inventory constants *)

ACTIVE == "ACTIVE"
LOW_STOCK == "LOW_STOCK"
OUT_OF_STOCK == "OUT_OF_STOCK"
EXPIRED == "EXPIRED"
INVENTORY_STATUS == {ACTIVE, LOW_STOCK, OUT_OF_STOCK, EXPIRED}

DEFAULT_REORDER_LEVEL == 10

\* identifiers of the collection, and an id that is no ObjectId
ItemIds == {"id1"}
MalformedId == "not-an-object-id"
NoId == "none"

\* the valid quantities, reorder levels and dates a request may carry
Quantities == {0, 5}
ReorderLevels == {0, DEFAULT_REORDER_LEVEL}
Dates == 0 .. MaxTime
\* the dates of request bodies: the earliest instant and the latest
BodyDates == {0, MaxTime}

\* request bodies, reduced to the fields the status depends on; name, category
\* and unit are taken as present and valid
BodyQuantity == {Undefined} \cup {Num(q) : q \in Quantities}
BodyReorderLevel == {Undefined} \cup {Num(r) : r \in ReorderLevels}
BodyExpiryDate == {Undefined, Null} \cup {DateAt(d) : d \in BodyDates}
BodyStatus == {Undefined, Str(ACTIVE)}
WellTypedBodies ==
    [quantity : BodyQuantity, reorderLevel : BodyReorderLevel,
     expiryDate : BodyExpiryDate, status : BodyStatus]
\* bodies with one field no validator accepts
IllTypedBodies ==
    LET base == {b \in WellTypedBodies :
                    /\ b.status = Undefined /\ b.expiryDate = Undefined
                    /\ b.reorderLevel = Undefined /\ b.quantity \in {Undefined, Num(5)}}
    IN  {[b EXCEPT !.quantity = x] : b \in base, x \in {Null, Num(-1)}}
        \cup {[b EXCEPT !.reorderLevel = Num(-1)] : b \in base}
        \cup {[b EXCEPT !.expiryDate = BadDate] : b \in base}
Bodies == WellTypedBodies \cup IllTypedBodies

NoDoc ==
    [quantity |-> Undefined, reorderLevel |-> Undefined,
     expiryDate |-> Undefined, status |-> Undefined]
NoCalc == [quantity |-> Undefined, reorderLevel |-> Undefined, expiryDate |-> Undefined]

-----------------------------------------------------------------------------
(* InventoryItemService._calculateStatus *)

_calculateStatusSwapped(item, at) ==
    IF StrictEqZero(item.quantity) THEN OUT_OF_STOCK
    ELSE IF Truthy(item.expiryDate) /\ DateBefore(item.expiryDate, at) THEN EXPIRED
    ELSE IF LessEq(item.quantity, item.reorderLevel) THEN LOW_STOCK
    ELSE ACTIVE

_calculateStatus(item, at) ==
    IF Truthy(item.expiryDate) /\ DateBefore(item.expiryDate, at) THEN EXPIRED
    ELSE IF StrictEqZero(item.quantity) THEN OUT_OF_STOCK
    ELSE IF LessEq(item.quantity, item.reorderLevel) THEN LOW_STOCK
    ELSE ACTIVE

-----------------------------------------------------------------------------
(* Validators *)

\* typeof x !== 'number' || x < 0
NotNonNegativeNumber(x) == ~IsNumber(x) \/ x.v < 0

validateUpdateInventoryItem(body) ==
    /\ ~(body.quantity = Undefined \/ body.quantity = Null)
    /\ ~NotNonNegativeNumber(body.quantity)
    /\ ~(body.reorderLevel # Undefined /\ NotNonNegativeNumber(body.reorderLevel))
    /\ ~(Truthy(body.expiryDate) /\ ~DateParses(body.expiryDate))

\* the README's rules for POST are those of PUT
validateCreateInventoryItem(body) ==
    /\ IsNumber(body.quantity) /\ body.quantity.v >= 0
    /\ (body.reorderLevel = Undefined
        \/ (IsNumber(body.reorderLevel) /\ body.reorderLevel.v >= 0))
    /\ (body.expiryDate \in {Undefined, Null} \/ DateParses(body.expiryDate))

\* Object.keys(body).length === 0
EmptyBody(body) ==
    /\ body.quantity = Undefined
    /\ body.reorderLevel = Undefined
    /\ body.expiryDate = Undefined
    /\ body.status = Undefined

validatePatchInventoryItem(body) ==
    /\ ~(body.quantity # Undefined /\ NotNonNegativeNumber(body.quantity))
    /\ ~(body.reorderLevel # Undefined /\ NotNonNegativeNumber(body.reorderLevel))
    /\ ~(/\ body.expiryDate # Undefined
         /\ body.expiryDate # Null
         /\ ~DateParses(body.expiryDate))
    /\ ~EmptyBody(body)

-----------------------------------------------------------------------------
(* InventoryItemRepository over the InventoryItem schema *)

\* { ...data, status }: the computed status is written after the body's keys
WithStatusBodyWins(data, status) ==
    IF data.status = Undefined THEN [data EXCEPT !.status = Str(status)] ELSE data

WithStatus(data, status) == [data EXCEPT !.status = Str(status)]

\* InventoryItem.create(data): the schema's defaults fill the absent paths
SchemaCreate(data) ==
    [quantity |-> IF data.quantity = Undefined THEN Num(0) ELSE data.quantity,
     reorderLevel |->
        IF data.reorderLevel = Undefined THEN Num(DEFAULT_REORDER_LEVEL)
        ELSE data.reorderLevel,
     expiryDate |-> IF data.expiryDate = Undefined THEN Null ELSE data.expiryDate,
     status |-> IF data.status = Undefined THEN Str(ACTIVE) ELSE data.status]

\* findByIdAndUpdate(id, updates, {new: true}): the keys of updates are $set
SchemaUpdate(doc, updates) ==
    [f \in DOMAIN doc |-> IF updates[f] = Undefined THEN doc[f] ELSE updates[f]]

Exists(id) == id \in DOMAIN items

-----------------------------------------------------------------------------
(* Requests: validator middleware, service method, response code *)

Request(op, id, res, body, existing, calcInput, status) ==
    [op |-> op, id |-> id, res |-> res, at |-> now, body |-> body,
     existing |-> existing, calcInput |-> calcInput, status |-> status]

\* a request answered with an error: nothing was computed or written
Rejected(op, id, res) == Request(op, id, res, NoDoc, NoDoc, NoCalc, Undefined)

NoRequest ==
    [op |-> "none", id |-> NoId, res |-> 0, at |-> 0, body |-> NoDoc,
     existing |-> NoDoc, calcInput |-> NoCalc, status |-> Undefined]

\* the argument createInventoryItem hands to _calculateStatus
CreateCalcInput(body) ==
    [quantity |-> OrElse(body.quantity, Num(0)),
     reorderLevel |-> OrElse(body.reorderLevel, Num(DEFAULT_REORDER_LEVEL)),
     expiryDate |-> body.expiryDate]

\* POST /api/inventory
CreateInventoryItem ==
    \E body \in Bodies, id \in ItemIds :
        /\ ~Exists(id)
        /\ IF ~validateCreateInventoryItem(body)
           THEN /\ invLast' = Rejected("create", NoId, 400)
                /\ UNCHANGED items
           ELSE LET input == CreateCalcInput(body)
                    status == _calculateStatus(input, now)
                IN  /\ items' = (id :> SchemaCreate(WithStatus(body, status))) @@ items
                    /\ invLast' = Request("create", id, 201, body, NoDoc, input, Str(status))
        /\ UNCHANGED <<now, flight, recipeVars, valueVars, repoVars>>

\* the argument updateInventoryItem hands to _calculateStatus
UpdateCalcInput(body) ==
    [quantity |-> body.quantity, reorderLevel |-> body.reorderLevel,
     expiryDate |-> body.expiryDate]

\* the outcome of findById before a write: a cast error, nothing, or the item
Lookup(op, id) ==
    IF id = MalformedId THEN Rejected(op, id, 500) ELSE Rejected(op, id, 404)

\* PUT /api/inventory/:id
UpdateInventoryItem ==
    \E body \in Bodies, id \in ItemIds \cup {MalformedId} :
        /\ IF ~validateUpdateInventoryItem(body)
           THEN /\ invLast' = Rejected("put", id, 400)
                /\ UNCHANGED items
           ELSE IF ~Exists(id)
           THEN /\ invLast' = Lookup("put", id)
                /\ UNCHANGED items
           ELSE LET existingItem == items[id]
                    input == UpdateCalcInput(body)
                    status == _calculateStatus(input, now)
                IN  /\ items' = [items EXCEPT
                                   ![id] = SchemaUpdate(@, WithStatus(body, status))]
                    /\ invLast' = Request("put", id, 200, body, existingItem, input,
                                          Str(status))
        /\ UNCHANGED <<now, flight, recipeVars, valueVars, repoVars>>

\* mergedData of patchInventoryItem
PatchMerge(body, existingItem) ==
    [quantity |-> Coalesce(body.quantity, existingItem.quantity),
     reorderLevel |-> Coalesce(body.reorderLevel, existingItem.reorderLevel),
     expiryDate |-> Coalesce(body.expiryDate, existingItem.expiryDate)]

\* PATCH /api/inventory/:id
PatchInventoryItem ==
    \E body \in Bodies, id \in ItemIds \cup {MalformedId} :
        /\ IF ~validatePatchInventoryItem(body)
           THEN /\ invLast' = Rejected("patch", id, 400)
                /\ UNCHANGED items
           ELSE IF ~Exists(id)
           THEN /\ invLast' = Lookup("patch", id)
                /\ UNCHANGED items
           ELSE LET existingItem == items[id]
                    mergedData == PatchMerge(body, existingItem)
                    status == _calculateStatus(mergedData, now)
                IN  /\ items' = [items EXCEPT
                                   ![id] = SchemaUpdate(@, WithStatus(body, status))]
                    /\ invLast' = Request("patch", id, 200, body, existingItem,
                                          mergedData, Str(status))
        /\ UNCHANGED <<now, flight, recipeVars, valueVars, repoVars>>

\* GET /api/inventory/:id
GetInventoryItem ==
    \E id \in ItemIds \cup {MalformedId} :
        /\ invLast' =
              IF Exists(id)
              THEN Request("get", id, 200, NoDoc, items[id], NoCalc, Undefined)
              ELSE Lookup("get", id)
        /\ UNCHANGED <<items, now, flight, recipeVars, valueVars, repoVars>>

\* DELETE /api/inventory/:id
DeleteInventoryItem ==
    \E id \in ItemIds \cup {MalformedId} :
        /\ IF Exists(id)
           THEN /\ items' = [i \in DOMAIN items \ {id} |-> items[i]]
                /\ invLast' = Request("delete", id, 200, NoDoc, items[id], NoCalc,
                                      Undefined)
           ELSE /\ invLast' = Lookup("delete", id)
                /\ UNCHANGED items
        /\ UNCHANGED <<now, flight, recipeVars, valueVars, repoVars>>

\* time passes between requests
Tick ==
    /\ now < MaxTime
    /\ now' = now + 1
    /\ UNCHANGED <<items, invLast, flight, recipeVars, valueVars, repoVars>>

-----------------------------------------------------------------------------
(* Requests that overlap.  A handler runs alone between two awaits; the      *)
(* database performs each query of a handler at some later moment, and the   *)
(* queries of other handlers may come first.                                 *)

\* the requests that may be in progress at once
MaxClients == 2
Clients == 1 .. MaxClients

\* a patch between its findById and its updateById
Found(id, body, existingItem, mergedData, status) ==
    [state |-> "found", id |-> id, body |-> body, existing |-> existingItem,
     merged |-> mergedData, status |-> status]

NotPatching == [Found(NoId, NoDoc, NoDoc, NoCalc, ACTIVE) EXCEPT !.state = "idle"]

\* the five queries of getInventoryStats and the status each one filters on
Queries == {"total", "active", "lowStock", "outOfStock", "expired"}

Filter(query) ==
    CASE query = "active" -> {ACTIVE}
      [] query = "lowStock" -> {LOW_STOCK}
      [] query = "outOfStock" -> {OUT_OF_STOCK}
      [] query = "expired" -> {EXPIRED}
      [] OTHER -> INVENTORY_STATUS

\* InventoryItem.countDocuments(filter)
count(query) ==
    Cardinality({id \in DOMAIN items : \E status \in Filter(query) : items[id].status = Str(status)})

NoStats == [state |-> "idle", counted |-> {}, value |-> [query \in Queries |-> 0]]

NoFlight == [patch |-> [c \in Clients |-> NotPatching], stats |-> NoStats]

\* the body of the POST that stocks an item, and patches of one field each
StockBody == [NoDoc EXCEPT !.quantity = Num(5), !.reorderLevel = Num(DEFAULT_REORDER_LEVEL)]
OneFieldPatches ==
    {[NoDoc EXCEPT !.quantity = Num(0)], [NoDoc EXCEPT !.reorderLevel = Num(0)]}

\* PATCH /api/inventory/:id up to the call of updateById: the item is read and
\* the status is calculated on the merged view
PatchFinds ==
    \E c \in Clients, body \in OneFieldPatches, id \in ItemIds :
        /\ flight.patch[c].state = "idle"
        /\ validatePatchInventoryItem(body)
        /\ IF ~Exists(id)
           THEN /\ invLast' = Lookup("patch", id)
                /\ UNCHANGED flight
           ELSE LET existingItem == items[id]
                    mergedData == PatchMerge(body, existingItem)
                    status == _calculateStatus(mergedData, now)
                IN  /\ flight' =
                          [flight EXCEPT
                              !.patch[c] = Found(id, body, existingItem, mergedData, status)]
                    /\ UNCHANGED invLast
        /\ UNCHANGED <<items, now, recipeVars, valueVars, repoVars>>

\* the updateById of a patch is performed and the request is answered; it
\* writes nothing when the item was deleted in the meantime
PatchWrites ==
    \E c \in Clients :
        LET p == flight.patch[c]
        IN  /\ p.state = "found"
            /\ items' =
                  IF Exists(p.id)
                  THEN [items EXCEPT ![p.id] = SchemaUpdate(@, WithStatus(p.body, p.status))]
                  ELSE items
            /\ invLast' =
                  Request("patch", p.id, 200, p.body, p.existing, p.merged, Str(p.status))
            /\ flight' = [flight EXCEPT !.patch[c] = NotPatching]
            /\ UNCHANGED <<now, recipeVars, valueVars, repoVars>>

\* getInventoryStats issues its five counts
StatsStarts ==
    /\ flight.stats.state # "counting"
    /\ flight' = [flight EXCEPT !.stats = [NoStats EXCEPT !.state = "counting"]]
    /\ UNCHANGED <<items, now, invLast, recipeVars, valueVars, repoVars>>

\* one of the counts is performed; after the last one the result is returned
StatsCounts ==
    \E query \in Queries \ flight.stats.counted :
        /\ flight.stats.state = "counting"
        /\ flight' =
              [flight EXCEPT
                  !.stats.counted = @ \cup {query},
                  !.stats.value[query] = count(query),
                  !.stats.state =
                      IF flight.stats.counted \cup {query} = Queries THEN "returned"
                      ELSE "counting"]
        /\ UNCHANGED <<items, now, invLast, recipeVars, valueVars, repoVars>>

\* patches that overlap, on an item stocked by a POST
PatchesNext ==
    \/ CreateInventoryItem /\ invLast'.body = StockBody
    \/ PatchFinds
    \/ PatchWrites

\* getInventoryStats while items are created, patched and deleted
StatsNext ==
    \/ CreateInventoryItem /\ invLast'.body = StockBody
    \/ PatchInventoryItem /\ invLast'.body \in OneFieldPatches
    \/ DeleteInventoryItem
    \/ StatsStarts
    \/ StatsCounts

-----------------------------------------------------------------------------
(* _calculateStatus as a function: the arguments are drawn, then it is applied *)

CalcArguments ==
    [quantity : {Num(q) : q \in 0 .. MaxQuantity},
     reorderLevel : {Undefined} \cup {Num(r) : r \in 0 .. MaxQuantity},
     expiryDate : {Undefined, Null, BadDate} \cup {DateAt(d) : d \in Dates}]

NotCalculated == "none"

CalculateStatus ==
    /\ calc.out = NotCalculated
    /\ calc' = [calc EXCEPT !.out = _calculateStatus(calc.item, calc.at)]
    /\ UNCHANGED <<invVars, recipeVars, compliance, nutrition, repoVars>>

-----------------------------------------------------------------------------
(* DietaryFlags *)

FlagNames == {"vegetarian", "vegan", "halal", "glutenFree", "dairyFree", "nutFree"}

\* new DietaryFlags(params): an omitted flag is false
NewDietaryFlags(params) ==
    [f \in FlagNames |-> IF params[f] = Undefined THEN Bool(FALSE) ELSE params[f]]

isCompliantWith(this, requirements) ==
    IF Truthy(requirements["vegetarian"]) /\ ~Truthy(this["vegetarian"]) THEN FALSE
    ELSE IF Truthy(requirements["vegan"]) /\ ~Truthy(this["vegan"]) THEN FALSE
    ELSE IF Truthy(requirements["halal"]) /\ ~Truthy(this["halal"]) THEN FALSE
    ELSE IF Truthy(requirements["glutenFree"]) /\ ~Truthy(this["glutenFree"]) THEN FALSE
    ELSE TRUE

NotCalled == "none"

\* the flags are drawn, then isCompliantWith is applied
IsCompliantWith ==
    /\ compliance.out = NotCalled
    /\ compliance' =
          [compliance EXCEPT
              !.out = IF isCompliantWith(compliance.this, compliance.requirements)
                      THEN "true" ELSE "false"]
    /\ UNCHANGED <<invVars, recipeVars, calc, nutrition, repoVars>>

-----------------------------------------------------------------------------
(* NutritionalInfo *)

\* nutrient values range over -1 .. MaxNutrient
MaxNutrient == 1

NutrientNames == {"calories", "protein", "carbs", "fats", "fiber", "sugar"}
NutrientParams ==
    [NutrientNames -> {Undefined} \cup {Num(x) : x \in -1 .. MaxNutrient}]

\* a default parameter value: `name = d` in a destructuring pattern
DefaultTo(x, d) == IF x = Undefined THEN d ELSE x

NoNutrition == [f \in NutrientNames |-> Undefined]

\* the constructor: what it throws, or the frozen object it builds
NewNutritionalInfoAllChecked(params) ==
    LET given == [f \in NutrientNames |-> DefaultTo(params[f], Num(0))]
    IN  IF \E f \in NutrientNames : given[f].v < 0
        THEN [state |-> "thrown", value |-> NoNutrition]
        ELSE [state |-> "built", value |-> given]

NewNutritionalInfo(params) ==
    LET given == [f \in NutrientNames |-> DefaultTo(params[f], Num(0))]
    IN  IF \/ given["calories"].v < 0
           \/ given["protein"].v < 0
           \/ given["carbs"].v < 0
           \/ given["fats"].v < 0
        THEN [state |-> "thrown", value |-> NoNutrition]
        ELSE [state |-> "built", value |-> given]

\* the parameters are drawn, then the constructor is applied
ConstructNutritionalInfo ==
    /\ nutrition.out.state = NotCalled
    /\ nutrition' = [nutrition EXCEPT !.out = NewNutritionalInfo(nutrition.params)]
    /\ UNCHANGED <<invVars, recipeVars, calc, compliance, repoVars>>

\* toJSON(): the six values, the calories under the key 'callories'
toJSON(n) ==
    [f \in (NutrientNames \ {"calories"}) \cup {"callories"} |->
        IF f = "callories" THEN n["calories"] ELSE n[f]]

\* the constructor's destructuring of a plain object
Destructured(obj) ==
    [f \in NutrientNames |-> IF f \in DOMAIN obj THEN obj[f] ELSE Undefined]

\* equals(other): false for a missing other, else === on all six values
equals(this, other) ==
    IF other.state # "built" THEN FALSE
    ELSE \A f \in NutrientNames : this[f] = other.value[f]

ToJSON ==
    /\ nutrition.out.state = "built"
    /\ "json" \notin DOMAIN nutrition
    /\ nutrition' =
          [f \in DOMAIN nutrition \cup {"json"} |->
              IF f = "json" THEN toJSON(nutrition.out.value) ELSE nutrition[f]]
    /\ UNCHANGED <<invVars, recipeVars, calc, compliance, repoVars>>

\* n.equals(other), and other.equals(n), for other the object itself, a
\* NutritionalInfo constructed from n.toJSON(), or null
Equals ==
    /\ "json" \in DOMAIN nutrition
    /\ "equal" \notin DOMAIN nutrition
    /\ \E against \in {"itself", "revived", "absent"} :
          LET n == nutrition.out
              other ==
                  IF against = "itself" THEN n
                  ELSE IF against = "revived"
                  THEN NewNutritionalInfo(Destructured(nutrition.json))
                  ELSE [state |-> "null", value |-> NoNutrition]
              called ==
                  [against |-> against, other |-> other,
                   equal |-> equals(n.value, other),
                   converse |-> other.state = "built" /\ equals(other.value, n)]
          IN  nutrition' =
                  [f \in DOMAIN nutrition \cup DOMAIN called |->
                      IF f \in DOMAIN called THEN called[f] ELSE nutrition[f]]
    /\ UNCHANGED <<invVars, recipeVars, calc, compliance, repoVars>>

NutritionNext ==
    \/ ConstructNutritionalInfo
    \/ ToJSON
    \/ Equals

-----------------------------------------------------------------------------
(* JavaScript numbers as exact fractions n/d (d > 0), Infinity, -Infinity and NaN; *)
(* the rounding of IEEE doubles is not modelled                                     *)

Abs(i) == IF i < 0 THEN -i ELSE i

RECURSIVE GCD(_, _)
GCD(a, b) == IF b = 0 THEN a ELSE GCD(b, a % b)

Fraction(n, d) ==
    LET g == GCD(Abs(n), Abs(d))
        sign == IF d < 0 THEN -1 ELSE 1
    IN  [k |-> "finite", n |-> sign * (n \div g), d |-> sign * (d \div g)]

PosInfinity == [k |-> "Infinity", n |-> 1, d |-> 0]
NegInfinity == [k |-> "-Infinity", n |-> -1, d |-> 0]
NaN == [k |-> "NaN", n |-> 0, d |-> 0]

Sign(x) == IF x.n > 0 THEN 1 ELSE IF x.n < 0 THEN -1 ELSE 0

\* a / b for an integer a and a servingSize b (a number, or undefined: NaN)
Divide(a, b) ==
    IF b.t # "number" THEN NaN
    ELSE IF b.v # 0 THEN Fraction(a, b.v)
    ELSE IF a > 0 THEN PosInfinity
    ELSE IF a < 0 THEN NegInfinity
    ELSE NaN

\* x * y
Multiply(x, y) ==
    IF x.k = "NaN" \/ y.k = "NaN" THEN NaN
    ELSE IF x.k = "finite" /\ y.k = "finite" THEN Fraction(x.n * y.n, x.d * y.d)
    ELSE IF Sign(x) * Sign(y) = 0 THEN NaN
    ELSE IF Sign(x) * Sign(y) > 0 THEN PosInfinity
    ELSE NegInfinity

-----------------------------------------------------------------------------
(* Recipe *)

\* strings are sequences over Chars of length at most MaxStrLen
MaxStrLen == 1
\* ingredient lists have at most MaxIngredients entries
MaxIngredients == 2
\* adjustServingSize is called at most MaxAdjust times on one recipe
MaxAdjust == 1

Chars == {" ", "a"}

RECURSIVE SeqsUpTo(_, _)
SeqsUpTo(S, n) ==
    IF n = 0 THEN {<< >>}
    ELSE LET shorter == SeqsUpTo(S, n - 1)
         IN  shorter \cup {Append(q, x) : q \in shorter, x \in S}

NoString == [t |-> "undefined", s |-> << >>]
String(s) == [t |-> "string", s |-> s]
Strings == {NoString} \cup {String(s) : s \in SeqsUpTo(Chars, MaxStrLen)}
\* undefined, empty, blank and visible
ShortStrings == {NoString, String(<< >>), String(<<" ">>), String(<<"a">>)}

RECURSIVE TrimStart(_)
TrimStart(s) == IF s # << >> /\ Head(s) = " " THEN TrimStart(Tail(s)) ELSE s

RECURSIVE TrimEnd(_)
TrimEnd(s) ==
    IF s # << >> /\ s[Len(s)] = " " THEN TrimEnd(SubSeq(s, 1, Len(s) - 1)) ELSE s

\* String.prototype.trim
Trim(s) == TrimEnd(TrimStart(s))

\* !x || x.trim().length === 0
Blank(x) == x.t = "undefined" \/ Len(x.s) = 0 \/ Len(Trim(x.s)) = 0

Rice == [name |-> "rice", quantity |-> Fraction(100, 1), unit |-> "g", isEssential |-> TRUE]
Salt == [name |-> "salt", quantity |-> Fraction(3, 1), unit |-> "tsp", isEssential |-> FALSE]
IngredientPool == {Rice, Salt}

NoArray == [t |-> "undefined", s |-> << >>]
Array(s) == [t |-> "array", s |-> s]
IngredientLists ==
    {NoArray} \cup {Array(s) : s \in SeqsUpTo(IngredientPool, MaxIngredients)}

ServingSizes == {-1, 0, 3, 4, 8}
ServingValues == {Undefined} \cup {Num(n) : n \in ServingSizes}

NoInfo == [state |-> "null", value |-> NoNutrition]
NutritionSamples == {NewNutritionalInfo([f \in NutrientNames |-> Num(1)])}

AllFlags == {NewDietaryFlags(p) : p \in [FlagNames -> {Undefined, Bool(TRUE)}]}
NoFlags == NewDietaryFlags([f \in FlagNames |-> Undefined])

\* new Recipe({...}): id null, nutritionalInfo null, isActive true
NewRecipe(name, ingredients, instructions, servingSize, dietaryFlags) ==
    [id |-> Null, name |-> name, ingredients |-> ingredients,
     instructions |-> instructions, nutritionalInfo |-> NoInfo,
     dietaryFlags |-> dietaryFlags, allergens |-> {"nuts"},
     servingSize |-> servingSize, seasonal |-> Array(<< >>), isActive |-> TRUE,
     updatedAt |-> 0]

DefaultRecipe ==
    NewRecipe(String(<<"a">>), Array(<<Rice>>), String(<<"a">>), Num(4), NoFlags)

\* what validate() throws, or "true"
validateNoIngredientRule(r) ==
    IF Blank(r.name) THEN "Recipe name is required"
    ELSE IF Blank(r.instructions) THEN "Instructions are required"
    ELSE IF LessEq(r.servingSize, Num(0)) THEN "Serving size must be greater than 0"
    ELSE "true"

validate(r) ==
    IF Blank(r.name) THEN "Recipe name is required"
    ELSE IF r.ingredients.t = "undefined" \/ Len(r.ingredients.s) = 0
    THEN "Recipe must have at least one ingredient"
    ELSE IF Blank(r.instructions) THEN "Instructions are required"
    ELSE IF LessEq(r.servingSize, Num(0)) THEN "Serving size must be greater than 0"
    ELSE "true"

Called(op, n, a, out) ==
    [op |-> op, n |-> n, a |-> a, out |-> out, before |-> recipe]

NoCall == [op |-> "none", n |-> 0, a |-> "", out |-> "", before |-> DefaultRecipe]

Validate ==
    /\ recipeLast' = Called("validate", 0, "", validate(recipe))
    /\ UNCHANGED <<recipe, adjusts, invVars, valueVars, repoVars>>

\* new Date() as the recipe's methods read it: an instant not before updatedAt
Clock(r) == r.updatedAt .. MaxTime

UpdateNutrition ==
    \E info \in NutritionSamples, date \in Clock(recipe) :
        /\ recipe' = [recipe EXCEPT !.nutritionalInfo = info, !.updatedAt = date]
        /\ recipeLast' = Called("updateNutrition", 0, "", "undefined")
        /\ UNCHANGED <<adjusts, invVars, valueVars, repoVars>>

\* obj.field === true, for a field the object may not have
FieldIsTrue(obj, field) == field \in DOMAIN obj /\ obj[field] = Bool(TRUE)

isVegetarian(r) == FieldIsTrue(r.dietaryFlags, "vegetarian")

isHalal(r) == FieldIsTrue(r.dietaryFlags, "hala")

BoolString(b) == IF b THEN "true" ELSE "false"

IsVegetarian ==
    /\ recipeLast' = Called("isVegetarian", 0, "", BoolString(isVegetarian(recipe)))
    /\ UNCHANGED <<recipe, adjusts, invVars, valueVars, repoVars>>

IsHalal ==
    /\ recipeLast' = Called("isHalal", 0, "", BoolString(isHalal(recipe)))
    /\ UNCHANGED <<recipe, adjusts, invVars, valueVars, repoVars>>

HasAllergens ==
    \E allergen \in {"nuts", "dairy"} :
        /\ recipeLast' =
              Called("hasAllergens", 0, allergen, BoolString(allergen \in recipe.allergens))
        /\ UNCHANGED <<recipe, adjusts, invVars, valueVars, repoVars>>

\* a switch instead of an assignment
markAsInactiveToggles(r, date) == [r EXCEPT !.isActive = ~@, !.updatedAt = date]

\* this.isActive = false; this.updatedAt = new Date()
markAsInactive(r, date) == [r EXCEPT !.isActive = FALSE, !.updatedAt = date]

MarkAsInactive ==
    \E date \in Clock(recipe) :
        /\ recipe' = markAsInactive(recipe, date)
        /\ recipeLast' = Called("markAsInactive", 0, "", "undefined")
        /\ UNCHANGED <<adjusts, invVars, valueVars, repoVars>>

MultiplierInverted(newServingSize, servingSize) ==
    IF servingSize.t = "number" THEN Divide(servingSize.v, Num(newServingSize)) ELSE NaN

\* newServingSize / this.servingSize
Multiplier(newServingSize, servingSize) == Divide(newServingSize, servingSize)

Scale(ingredient, multiplier) ==
    [ingredient EXCEPT !.quantity = Multiply(@, multiplier)]

\* adjustServingSize(newServingSize); this.ingredients.map throws a TypeError
\* when there is no ingredient list
AdjustServingSize ==
    \E newServingSize \in ServingSizes, date \in Clock(recipe) :
        /\ adjusts < MaxAdjust
        /\ adjusts' = adjusts + 1
        /\ IF recipe.ingredients.t = "undefined"
           THEN /\ recipeLast' = Called("adjustServingSize", newServingSize, "", "TypeError")
                /\ UNCHANGED recipe
           ELSE LET multiplier == Multiplier(newServingSize, recipe.servingSize)
                IN  /\ recipe' =
                          [recipe EXCEPT
                              !.ingredients =
                                  Array([i \in DOMAIN @.s |-> Scale(@.s[i], multiplier)]),
                              !.servingSize = Num(newServingSize),
                              !.updatedAt = date]
                    /\ recipeLast' =
                          Called("adjustServingSize", newServingSize, "", "undefined")
        /\ UNCHANGED <<invVars, valueVars, repoVars>>

RecipeIdle ==
    /\ recipe = DefaultRecipe
    /\ recipeLast = NoCall
    /\ adjusts = 0

\* the recipes the methods are tried on
Recipes ==
    {NewRecipe(name, ingredients, instructions, servingSize, NoFlags) :
        name \in Strings, instructions \in ShortStrings,
        ingredients \in {NoArray, Array(<< >>), Array(<<Rice>>)},
        servingSize \in {Undefined, Num(-1), Num(0), Num(4)}}
    \cup {NewRecipe(String(<<"a">>), ingredients, String(<<"a">>), servingSize, NoFlags) :
            ingredients \in IngredientLists, servingSize \in ServingValues}
    \cup {NewRecipe(String(<<"a">>), Array(<<Rice>>), String(<<"a">>), Num(4), flags) :
            flags \in AllFlags}

-----------------------------------------------------------------------------
(* Values shared by the recipe repositories *)

\* a repository holds at most MaxRecipes recipes
MaxRecipes == 2

\* String(n), and the hexadecimal identifier of the n-th document
IdString(n) == [t |-> "id", v |-> n]
\* an identifier that is no ObjectId
NotAnObjectId == [t |-> "id", v |-> -1]
NoRecipeId == [t |-> "id", v |-> 0]

\* {...a, ...b}
Spread(a, b) ==
    [f \in DOMAIN a \cup DOMAIN b |-> IF f \in DOMAIN b THEN b[f] ELSE a[f]]

\* obj.field, undefined when the object has no such property
Get(obj, field) == IF field \in DOMAIN obj THEN obj[field] ELSE Undefined

\* obj.field === false, for a boolean property the object may not have
FieldIsFalse(obj, field) == field \in DOMAIN obj /\ obj[field] = FALSE

OnlyFlag(flag) ==
    NewDietaryFlags([f \in FlagNames |-> IF f = flag THEN Bool(TRUE) ELSE Undefined])

\* Recipe entities handed to a repository: a plain one, a vegetarian one, and
\* one on which markAsInactive() was called
Porridge == DefaultRecipe
Salad ==
    NewRecipe(String(<<"a">>), Array(<<Salt>>), String(<<"a">>), Num(4),
              OnlyFlag("vegetarian"))
Retired == [Porridge EXCEPT !.isActive = FALSE]
RepoRecipes == {Porridge, Salad, Retired}

\* the second argument of update: some fields, or a whole entity
Partials == {[isActive |-> FALSE], Salad}

\* dietary flags as a query: the flags named, each true or false
FlagQueries ==
    {<< >>}
    \cup {[f \in {flag} |-> Bool(TRUE)] : flag \in FlagNames}
    \cup {[f \in {"vegetarian"} |-> Bool(FALSE)],
          [f \in {"vegetarian", "nutFree"} |-> Bool(TRUE)]}

DEFAULT_PAGE == 1
DEFAULT_LIMIT == 10
NoPagination == << >>
Paginations ==
    {NoPagination} \cup [page : 1 .. MaxRecipes + 1, limit : 1 .. MaxRecipes]
\* the arguments findAll is called with: every filter on the default page, and
\* every page without a filter or of the vegetarian recipes
FindAllArguments ==
    [filters : FlagQueries, pagination : {NoPagination}]
    \cup [filters : {<< >>, [f \in {"vegetarian"} |-> Bool(TRUE)]},
          pagination : Paginations]
\* const { page = 1, limit = 10 } = pagination
PageOf(pagination) ==
    IF "page" \in DOMAIN pagination THEN pagination.page ELSE DEFAULT_PAGE
LimitOf(pagination) ==
    IF "limit" \in DOMAIN pagination THEN pagination.limit ELSE DEFAULT_LIMIT

\* Math.ceil(total / limit) for a positive limit
Ceil(total, limit) == (total + limit - 1) \div limit

\* Array.prototype.slice(start, end) for 0 <= start <= end
Slice(s, start, end) ==
    IF start >= Len(s) THEN << >>
    ELSE SubSeq(s, start + 1, IF end < Len(s) THEN end ELSE Len(s))

\* String.prototype.toLowerCase on the names and search terms in use
SearchTerms == {"ric", "SALT", "pea"}
toLowerCase(s) == IF s = "SALT" THEN "salt" ELSE s
\* String.prototype.includes on them
includes(s, term) == s = term \/ (s = "rice" /\ term = "ric")

\* some ingredient's name contains the term, whatever the case
HasIngredient(r, ingredientName) ==
    /\ r.ingredients.t = "array"
    /\ \E i \in DOMAIN r.ingredients.s :
          includes(toLowerCase(r.ingredients.s[i].name), toLowerCase(ingredientName))

\* what a repository method returned or threw
Returned(kind, value) == [kind |-> kind, value |-> value]
ReturnedNull == Returned("null", << >>)
Thrown(message) == Returned("thrown", message)

RepoCalled(impl, op, id, arg, out, before) ==
    [impl |-> impl, op |-> op, id |-> id, arg |-> arg, out |-> out, before |-> before]
NoRepoCall == RepoCalled("none", "none", NoRecipeId, << >>, ReturnedNull, << >>)

-----------------------------------------------------------------------------
(* MockRecipeRepository *)

MockIds == {IdString(n) : n \in 1 .. MaxRecipes + 1}

\* this.recipes.findIndex((r) => r.id === id), 0 for -1
MockIndex(id) ==
    IF \E i \in DOMAIN recipes : recipes[i].id = id
    THEN CHOOSE i \in DOMAIN recipes :
            recipes[i].id = id /\ \A j \in 1 .. i - 1 : recipes[j].id # id
    ELSE 0

MockCalled(op, id, arg, out) == RepoCalled("mock", op, id, arg, out, recipes)

MockIdle == UNCHANGED <<collection, creating, strictQuery, execution>>

MockSave ==
    \E r \in RepoRecipes :
        /\ Len(recipes) < MaxRecipes
        /\ LET saved == Spread(r, [id |-> IdString(nextId)])
           IN  /\ recipes' = Append(recipes, saved)
               /\ nextId' = nextId + 1
               /\ repoLast' = MockCalled("save", NoRecipeId, r, Returned("recipe", saved))
        /\ MockIdle
        /\ UNCHANGED <<invVars, recipeVars, valueVars>>

MockFindById ==
    \E id \in MockIds :
        /\ repoLast' =
              MockCalled("findById", id, << >>,
                         IF MockIndex(id) = 0 THEN ReturnedNull
                         ELSE Returned("recipe", recipes[MockIndex(id)]))
        /\ MockIdle
        /\ UNCHANGED <<recipes, nextId, invVars, recipeVars, valueVars>>

\* the recipes findAll pages through
MockFiltered(filters) ==
    LET active == SelectSeq(recipes, LAMBDA r : ~FieldIsFalse(r, "isActice"))
        keep(list, flag) ==
            IF Truthy(Get(filters, flag))
            THEN SelectSeq(list, LAMBDA r : Truthy(Get(r.dietaryFlags, flag)))
            ELSE list
    IN  keep(keep(keep(active, "vegetarian"), "halal"), "vegan")

MockFindAllResult(filters, pagination) ==
    LET page == PageOf(pagination)
        limit == LimitOf(pagination)
        filtered == MockFiltered(filters)
        total == Len(filtered)
        start == (page - 1) * limit
    IN  [recipes |-> Slice(filtered, start, start + limit), total |-> total,
         page |-> page, totalPages |-> Ceil(total, limit)]

MockFindAll ==
    \E arg \in FindAllArguments :
        /\ repoLast' =
              MockCalled("findAll", NoRecipeId, arg,
                         Returned("page", MockFindAllResult(arg.filters, arg.pagination)))
        /\ MockIdle
        /\ UNCHANGED <<recipes, nextId, invVars, recipeVars, valueVars>>

MockUpdate ==
    \E id \in MockIds, r \in Partials :
        /\ LET index == MockIndex(id)
           IN  IF index = 0
               THEN /\ repoLast' = MockCalled("update", id, r, ReturnedNull)
                    /\ UNCHANGED recipes
               ELSE LET updated == Spread(Spread(recipes[index], r), [id |-> id])
                    IN  /\ recipes' = [recipes EXCEPT ![index] = updated]
                        /\ repoLast' =
                              MockCalled("update", id, r, Returned("recipe", updated))
        /\ MockIdle
        /\ UNCHANGED <<nextId, invVars, recipeVars, valueVars>>

MockDelete ==
    \E id \in MockIds :
        /\ LET index == MockIndex(id)
           IN  IF index = 0
               THEN /\ repoLast' = MockCalled("delete", id, << >>, ReturnedNull)
                    /\ UNCHANGED recipes
               ELSE LET deleted == Spread(recipes[index], [isActice |-> FALSE])
                    IN  /\ recipes' = [recipes EXCEPT ![index] = deleted]
                        /\ repoLast' =
                              MockCalled("delete", id, << >>, Returned("recipe", deleted))
        /\ MockIdle
        /\ UNCHANGED <<nextId, invVars, recipeVars, valueVars>>

MockSearchByIngredientResult(ingredientName) ==
    SelectSeq(recipes,
              LAMBDA r : ~FieldIsFalse(r, "isActice") /\ HasIngredient(r, ingredientName))

MockSearchByIngredient ==
    \E ingredientName \in SearchTerms :
        /\ repoLast' =
              MockCalled("searchByIngredient", NoRecipeId, ingredientName,
                         Returned("list", MockSearchByIngredientResult(ingredientName)))
        /\ MockIdle
        /\ UNCHANGED <<recipes, nextId, invVars, recipeVars, valueVars>>

MockFindByDietaryFlagsResult(flags) ==
    SelectSeq(recipes,
              LAMBDA r :
                  IF FieldIsFalse(r, "isActice") THEN FALSE
                  ELSE \A flag \in DOMAIN flags :
                          ~Truthy(flags[flag]) \/ FieldIsTrue(r.dietaryFlags, flag))

MockFindByDietaryFlags ==
    \E flags \in FlagQueries :
        /\ repoLast' =
              MockCalled("findByDietaryFlags", NoRecipeId, flags,
                         Returned("list", MockFindByDietaryFlagsResult(flags)))
        /\ MockIdle
        /\ UNCHANGED <<recipes, nextId, invVars, recipeVars, valueVars>>

\* a clear that resets the counter and keeps the recipes
MockClearCounterOnly ==
    /\ recipes' = recipes
    /\ nextId' = 1
    /\ repoLast' = MockCalled("clear", NoRecipeId, << >>, Returned("undefined", << >>))
    /\ MockIdle
    /\ UNCHANGED <<invVars, recipeVars, valueVars>>

MockClear ==
    /\ recipes' = << >>
    /\ nextId' = 1
    /\ repoLast' = MockCalled("clear", NoRecipeId, << >>, Returned("undefined", << >>))
    /\ MockIdle
    /\ UNCHANGED <<invVars, recipeVars, valueVars>>

MockCount ==
    /\ repoLast' = MockCalled("count", NoRecipeId, << >>, Returned("number", Len(recipes)))
    /\ MockIdle
    /\ UNCHANGED <<recipes, nextId, invVars, recipeVars, valueVars>>

MockNext ==
    \/ MockSave
    \/ MockFindById
    \/ MockFindAll
    \/ MockUpdate
    \/ MockDelete
    \/ MockSearchByIngredient
    \/ MockFindByDietaryFlags
    \/ MockClear
    \/ MockCount

-----------------------------------------------------------------------------
(* RecipeSchema, RecipeMapper and MongoRecipeRepository.  A document of the  *)
(* collection has the paths the schema declares; the schema declares no      *)
(* dietaryFlags, so Mongoose (strict by default) stores and exposes none.    *)
(* Timestamps are left out of the documents.                                 *)

NAME_MINLENGTH == 3
INSTRUCTIONS_MINLENGTH == 10
SERVING_SIZE_MIN == 1
Seasons == {"spring", "summer", "fall", "winter", "all-year"}

Repeat(c, n) == [i \in 1 .. n |-> c]
Season(s) == [t |-> "string", s |-> <<s>>]
NoSeason == [t |-> "undefined", s |-> << >>]
EmptyArray == Array(<< >>)

ZeroNutrition == [f \in NutrientNames |-> Num(0)]

\* documents that were written to the collection through the schema
Stew ==
    [name |-> String(Repeat("a", NAME_MINLENGTH)),
     instructions |-> String(Repeat("a", INSTRUCTIONS_MINLENGTH)),
     ingredients |-> Array(<<Rice>>), nutritionalInfo |-> ZeroNutrition,
     allergens |-> {"nuts"}, servingSize |-> Num(4), seasonal |-> Season("summer"),
     isActive |-> TRUE, createdBy |-> "user"]
Archived == [Stew EXCEPT !.isActive = FALSE]
SeedDocuments == {Stew, Archived}

\* the collections the repository may be started on: the n-th document has the
\* n-th identifier
Collections ==
    {[i \in DOMAIN s |-> Spread(s[i], [_id |-> IdString(i)])] :
        s \in SeqsUpTo(SeedDocuments, MaxRecipes)}

MongoIds == {IdString(n) : n \in 1 .. MaxRecipes + 1} \cup {NotAnObjectId}

\* x || []
OrEmptyArray(x) == IF x.t = "undefined" \/ (x.t = "string" /\ x.s = << >>) THEN EmptyArray ELSE x

\* RecipeMapper.toDomain of a document
toDomain(mongoDoc) ==
    [id |-> mongoDoc._id, name |-> mongoDoc.name, ingredients |-> mongoDoc.ingredients,
     instructions |-> mongoDoc.instructions,
     nutritionalInfo |-> NewNutritionalInfo(mongoDoc.nutritionalInfo),
     dietaryFlags |-> NewDietaryFlags([f \in FlagNames |-> Bool(FALSE)]),
     allergens |-> mongoDoc.allergens, servingSize |-> mongoDoc.servingSize,
     seasonal |-> OrEmptyArray(mongoDoc.seasonal), isActive |-> mongoDoc.isActive,
     updatedAt |-> 0]

toDomainList(mongoDocs) == [i \in DOMAIN mongoDocs |-> toDomain(mongoDocs[i])]

\* RecipeMapper.toPersistence: the keys with a defined value
toPersistence(r) ==
    LET core ==
            [name |-> Get(r, "name"), instructions |-> Get(r, "instructions"),
             ingredients |-> Get(r, "ingredients"),
             servingSize |-> Get(r, "servingSize"),
             seasonal |-> OrEmptyArray(IF "seasonal" \in DOMAIN r THEN r.seasonal
                                       ELSE NoSeason)]
        defined == {f \in DOMAIN core : core[f].t # "undefined"}
        base == [f \in defined |-> core[f]]
        allergens == [allergens |-> IF "allergens" \in DOMAIN r THEN r.allergens ELSE {}]
        active == IF "isActive" \in DOMAIN r THEN [isActive |-> r.isActive] ELSE << >>
        info ==
            IF "nutritionalInfo" \in DOMAIN r /\ r.nutritionalInfo.state = "built"
            THEN [nutritionalInfo |-> r.nutritionalInfo.value] ELSE << >>
        flags ==
            IF "dietaryFlags" \in DOMAIN r THEN [dietaryFlags |-> r.dietaryFlags]
            ELSE << >>
    IN  Spread(Spread(Spread(Spread(base, allergens), active), info), flags)

\* the paths of the data that Mongoose cannot cast to the schema's types
CastFailures(data) ==
    {f \in {"seasonal"} : f \in DOMAIN data /\ data[f].t = "array"}

\* the paths of the data that fail a validator of the schema
ValidatorFailures(data) ==
    {f \in {"name"} : f \in DOMAIN data /\ Len(Trim(data[f].s)) < NAME_MINLENGTH}
    \cup {f \in {"instructions"} :
            f \in DOMAIN data /\ Len(data[f].s) < INSTRUCTIONS_MINLENGTH}
    \cup {f \in {"servingSize"} :
            f \in DOMAIN data /\ data[f].v < SERVING_SIZE_MIN}
    \cup {f \in {"seasonal"} :
            f \in DOMAIN data /\ data[f].t = "string"
            /\ \A s \in Seasons : data[f] # Season(s)}

\* a schema without required paths
MissingRequiredNone(data) == {}

\* the required paths a new document lacks
MissingRequired(data) ==
    {"name", "instructions", "servingSize", "createdBy"} \ DOMAIN data

\* the paths of the data that the schema declares (strict mode drops the rest)
SchemaPaths(data) == [f \in DOMAIN data \ {"dietaryFlags"} |-> data[f]]

\* entities built from a stored recipe: the active recipe as it was read, and
\* one whose new name is too short for the schema
Revised == [toDomain(Spread(Stew, [_id |-> NoRecipeId])) EXCEPT !.id = Null]
Hasty == [Revised EXCEPT !.name = String(<<"a">>)]
\* a partial recipe: a new name and season, nothing else
Renamed == [name |-> String(Repeat("b", NAME_MINLENGTH)), seasonal |-> Season("winter")]
MongoUpdates == {[isActive |-> FALSE], Revised, Hasty, Renamed}

\* the schema has no dietaryFlags path, so a flag query is either empty, asks
\* for a flag or refuses one; pages are tried on the unfiltered collection
MongoFlagQueries ==
    {<< >>, [f \in {"vegetarian"} |-> Bool(TRUE)], [f \in {"vegetarian"} |-> Bool(FALSE)]}
MongoFindAllArguments ==
    [filters : MongoFlagQueries, pagination : {NoPagination}]
    \cup [filters : {<< >>}, pagination : Paginations]

\* a failure of the database, and an update the schema refuses whatever the
\* document, are tried on one stored id and on the invalid one
FaultIds == {IdString(1), NotAnObjectId}

\* the position of the document with this _id, 0 when there is none
MongoIndex(id) ==
    IF \E i \in DOMAIN collection : collection[i]._id = id
    THEN CHOOSE i \in DOMAIN collection : collection[i]._id = id
    ELSE 0

MongoCalled(op, id, arg, out) == RepoCalled("mongo", op, id, arg, out, collection)

MongoIdle == UNCHANGED <<recipes, nextId, strictQuery, execution>>

\* save: create() is not awaited, so toDomain is handed the promise, reads its
\* _id and throws a TypeError
MongoSave ==
    \E r \in {Porridge, Revised} :
        /\ creating' = creating \cup {toPersistence(r)}
        /\ repoLast' = MongoCalled("save", NoRecipeId, r, Thrown("Failed to save recipe"))
        /\ MongoIdle
        /\ UNCHANGED <<collection, invVars, recipeVars, valueVars>>

\* a RecipeSchema.create call settles: the document is validated and inserted,
\* or the promise rejects with nobody awaiting it
CreateSettles ==
    \E data \in creating :
        /\ creating' = creating \ {data}
        /\ IF CastFailures(data) = {} /\ ValidatorFailures(data) = {}
              /\ MissingRequired(data) = {}
           THEN collection' =
                    Append(collection,
                           Spread(Spread([nutritionalInfo |-> ZeroNutrition,
                                          isActive |-> TRUE, seasonal |-> NoSeason],
                                         SchemaPaths(data)),
                                  [_id |-> IdString(Len(collection) + 1)]))
           ELSE UNCHANGED collection
        /\ MongoIdle
        /\ UNCHANGED <<repoLast, invVars, recipeVars, valueVars>>

\* what the catch block of findById, update and delete makes of an error:
\* every error but a CastError is wrapped and thrown again
CaughtRethrowsAll(name, message) == Thrown(message)

Caught(name, message) ==
    IF name = "CastError" THEN ReturnedNull ELSE Thrown(message)

\* RecipeSchema.findById(id): "CastError", "MongoError" when the database
\* fails, else "found" or "null"
findById(id, fault) ==
    IF id = NotAnObjectId THEN "CastError"
    ELSE IF fault THEN "MongoError"
    ELSE IF MongoIndex(id) = 0 THEN "null"
    ELSE "found"

MongoFindById ==
    \E id \in MongoIds, fault \in BOOLEAN :
        /\ fault => id \in FaultIds
        /\ LET outcome == findById(id, fault)
           IN  repoLast' =
                  MongoCalled("findById", id, << >>,
                              IF outcome = "found"
                              THEN Returned("recipe", toDomain(collection[MongoIndex(id)]))
                              ELSE IF outcome = "null" THEN ReturnedNull
                              ELSE Caught(outcome, "Failed to find recipe"))
        /\ MongoIdle
        /\ UNCHANGED <<collection, creating, invVars, recipeVars, valueVars>>

\* Array.prototype.reverse
Reverse(s) == [i \in DOMAIN s |-> s[Len(s) + 1 - i]]

\* RecipeSchema.find({isActive: true, 'dietaryFlags.<flag>': true, ...}): the
\* schema has no dietaryFlags path, so the flag conditions are dropped from the
\* filter (strictQuery) or sent to a collection in which no document has them
Find(flags) ==
    LET required == {f \in DOMAIN flags : flags[f] = Bool(TRUE)}
    IN  SelectSeq(collection,
                  LAMBDA d : d.isActive /\ (required = {} \/ strictQuery))

MongoFindAllResult(filters, pagination) ==
    LET page == PageOf(pagination)
        limit == LimitOf(pagination)
        skip == (page - 1) * limit
        sorted == Reverse(Find(filters))
        total == Len(sorted)
    IN  [recipes |-> toDomainList(Slice(sorted, skip, skip + limit)), total |-> total,
         page |-> page, totalPage |-> Ceil(total, limit)]

MongoFindAll ==
    \E arg \in MongoFindAllArguments, fault \in BOOLEAN :
        /\ fault => arg.filters = << >> /\ arg.pagination = NoPagination
        /\ repoLast' =
              MongoCalled("findAll", NoRecipeId, arg,
                          IF fault THEN Thrown("Failed to find recipes")
                          ELSE Returned("page",
                                        MongoFindAllResult(arg.filters, arg.pagination)))
        /\ MongoIdle
        /\ UNCHANGED <<collection, creating, invVars, recipeVars, valueVars>>

\* findByIdAndUpdate(id, update, {new: true, runValidators}): "CastError",
\* "ValidationError", "MongoError" when the database fails, "null" when no
\* document has the id, else "updated"
findByIdAndUpdate(id, update, runValidators, fault) ==
    IF id = NotAnObjectId \/ CastFailures(update) # {} THEN "CastError"
    ELSE IF runValidators /\ ValidatorFailures(update) # {} THEN "ValidationError"
    ELSE IF fault THEN "MongoError"
    ELSE IF MongoIndex(id) = 0 THEN "null"
    ELSE "updated"

MongoUpdate ==
    \E id \in MongoIds, r \in MongoUpdates, fault \in BOOLEAN :
        /\ fault => id \in FaultIds /\ r = Revised
        /\ r \in {[isActive |-> FALSE], Hasty} => id \in FaultIds
        /\ LET persistenceData == toPersistence(r)
               outcome == findByIdAndUpdate(id, persistenceData, TRUE, fault)
               index == MongoIndex(id)
           IN  IF outcome = "updated"
               THEN LET updatedDoc == Spread(collection[index], SchemaPaths(persistenceData))
                    IN  /\ collection' = [collection EXCEPT ![index] = updatedDoc]
                        /\ repoLast' =
                              MongoCalled("update", id, r,
                                          Returned("recipe", toDomain(updatedDoc)))
               ELSE /\ repoLast' =
                          MongoCalled("update", id, r,
                                      IF outcome = "null" THEN ReturnedNull
                                      ELSE Caught(outcome, "Failed to update recipe"))
                    /\ UNCHANGED collection
        /\ MongoIdle
        /\ UNCHANGED <<creating, invVars, recipeVars, valueVars>>

MongoDelete ==
    \E id \in MongoIds, fault \in BOOLEAN :
        /\ fault => id \in FaultIds
        /\ LET outcome == findByIdAndUpdate(id, [isActive |-> FALSE], FALSE, fault)
               index == MongoIndex(id)
           IN  IF outcome = "updated"
               THEN LET deletedDoc == [collection[index] EXCEPT !.isActive = FALSE]
                    IN  /\ collection' = [collection EXCEPT ![index] = deletedDoc]
                        /\ repoLast' =
                              MongoCalled("delete", id, << >>,
                                          Returned("recipe", toDomain(deletedDoc)))
               ELSE /\ repoLast' =
                          MongoCalled("delete", id, << >>,
                                      IF outcome = "null" THEN ReturnedNull
                                      ELSE Caught(outcome, "Failed to delete recipe"))
                    /\ UNCHANGED collection
        /\ MongoIdle
        /\ UNCHANGED <<creating, invVars, recipeVars, valueVars>>

MongoSearchByIngredient ==
    \E ingredientName \in SearchTerms, fault \in BOOLEAN :
        /\ fault => ingredientName = "pea"
        /\ repoLast' =
              MongoCalled("searchByIngredient", NoRecipeId, ingredientName,
                          IF fault THEN Thrown("Failed to search by ingredient")
                          ELSE Returned("list",
                                  toDomainList(
                                      SelectSeq(collection,
                                                LAMBDA d : d.isActive
                                                    /\ HasIngredient(d, ingredientName)))))
        /\ MongoIdle
        /\ UNCHANGED <<collection, creating, invVars, recipeVars, valueVars>>

MongoFindByDietaryFlags ==
    \E flags \in MongoFlagQueries, fault \in BOOLEAN :
        /\ fault => flags = << >>
        /\ repoLast' =
              MongoCalled("findByDietaryFlags", NoRecipeId, flags,
                          IF fault THEN Thrown("Failed to find by dietary flags")
                          ELSE Returned("list", toDomainList(Find(flags))))
        /\ MongoIdle
        /\ UNCHANGED <<collection, creating, invVars, recipeVars, valueVars>>

MongoNext ==
    \/ MongoSave
    \/ CreateSettles
    \/ MongoFindById
    \/ MongoFindAll
    \/ MongoUpdate
    \/ MongoDelete
    \/ MongoSearchByIngredient
    \/ MongoFindByDietaryFlags

-----------------------------------------------------------------------------
(* CreateRecipeUseCase *)

\* the collaborators the use case is constructed with: a repository, and a
\* nutrition service that is null, or whose calculate() resolves or rejects
Repositories == {"mock", "mongo"}
NutritionServices == {"null", "resolves", "rejects"}

\* the recipeData execute is called with: one that validates, the same with a
\* dietary flag, and one for each rule of Recipe.validate it can break
Wholesome ==
    [name |-> String(<<"a">>), ingredients |-> Array(<<Rice>>),
     instructions |-> String(<<"a">>), servingSize |-> Num(4), dietaryFlags |-> << >>]

RecipeInputs ==
    {Wholesome,
     [Wholesome EXCEPT !.dietaryFlags = [f \in {"vegetarian"} |-> Bool(TRUE)]],
     [Wholesome EXCEPT !.name = String(<<" ">>)],
     [Wholesome EXCEPT !.ingredients = Array(<< >>)],
     [Wholesome EXCEPT !.instructions = String(<<" ">>)],
     [Wholesome EXCEPT !.servingSize = Num(0)]}

\* new Recipe({..., dietaryFlags: new DietaryFlags(recipeData.dietaryFlags || {})})
RecipeOf(recipeData) ==
    NewRecipe(recipeData.name, recipeData.ingredients, recipeData.instructions,
              recipeData.servingSize,
              NewDietaryFlags([f \in FlagNames |-> Get(recipeData.dietaryFlags, f)]))

\* recipe.validate() threw, and nothing caught it
ProceedsAlways(validation) == TRUE

\* execute goes on after recipe.validate() only when it returned
Proceeds(validation) == validation = "true"

\* this / this.nutritionService: an object is not a number
ThisDividedBy(nutritionService) == NaN

\* truthiness of a number
NumberTruthy(x) == x.k # "NaN" /\ ~(x.k = "finite" /\ x.n = 0)

\* the optional step: `this / this.nutritionService && ingredients.ingredients
\* .length > 0` is NaN, so neither its right operand (a ReferenceError) nor the
\* body that calls calculate and updateNutrition is evaluated
Enrichment(nutritionService, r) ==
    IF NumberTruthy(ThisDividedBy(nutritionService))
    THEN [calculateCalls |-> 0, recipe |-> r, error |-> "ReferenceError"]
    ELSE [calculateCalls |-> 0, recipe |-> r, error |-> "none"]

Executed(recipeData, repository, nutritionService, calculateCalls, saveCalls, saved, out, after) ==
    [state |-> "done", recipeData |-> recipeData, repository |-> repository,
     nutritionService |-> nutritionService, calculateCalls |-> calculateCalls,
     saveCalls |-> saveCalls, saved |-> saved, out |-> out,
     before |-> [recipes |-> recipes, collection |-> collection, creating |-> creating],
     after |-> after]

Execute ==
    \E recipeData \in RecipeInputs, repository \in Repositories,
       nutritionService \in NutritionServices :
        LET r == RecipeOf(recipeData)
            validation == validate(r)
            enriched == Enrichment(nutritionService, r)
            untouched ==
                [recipes |-> recipes, collection |-> collection, creating |-> creating]
            saved == Spread(enriched.recipe, [id |-> IdString(nextId)])
            persistenceData == toPersistence(enriched.recipe)
        IN  /\ IF ~Proceeds(validation)
               THEN /\ execution' =
                          Executed(recipeData, repository, nutritionService, 0, 0,
                                   Null, Thrown(validation), untouched)
                    /\ UNCHANGED <<recipes, nextId, creating, repoLast>>
               ELSE IF enriched.error # "none"
               THEN /\ execution' =
                          Executed(recipeData, repository, nutritionService,
                                   enriched.calculateCalls, 0, Null,
                                   Thrown(enriched.error), untouched)
                    /\ UNCHANGED <<recipes, nextId, creating, repoLast>>
               ELSE IF repository = "mock"
               THEN /\ Len(recipes) < MaxRecipes
                    /\ recipes' = Append(recipes, saved)
                    /\ nextId' = nextId + 1
                    /\ repoLast' =
                          MockCalled("save", NoRecipeId, enriched.recipe,
                                     Returned("recipe", saved))
                    /\ execution' =
                          Executed(recipeData, repository, nutritionService,
                                   enriched.calculateCalls, 1, enriched.recipe,
                                   Returned("recipe", saved),
                                   [untouched EXCEPT !.recipes = Append(recipes, saved)])
                    /\ UNCHANGED creating
               ELSE /\ creating' = creating \cup {persistenceData}
                    /\ repoLast' =
                          MongoCalled("save", NoRecipeId, enriched.recipe,
                                      Thrown("Failed to save recipe"))
                    /\ execution' =
                          Executed(recipeData, repository, nutritionService,
                                   enriched.calculateCalls, 1, enriched.recipe,
                                   Thrown("Failed to save recipe"),
                                   [untouched EXCEPT
                                       !.creating = creating \cup {persistenceData}])
                    /\ UNCHANGED <<recipes, nextId>>
            /\ UNCHANGED <<collection, strictQuery, invVars, recipeVars, valueVars>>

UseCaseNext ==
    \/ Execute
    \/ CreateSettles
    \/ MockClear

-----------------------------------------------------------------------------

InvInit ==
    /\ items = << >>
    /\ now = 0
    /\ invLast = NoRequest
    /\ flight = NoFlight

CalcIdle == [item |-> NoCalc, at |-> 0, out |-> NotCalculated]

ComplianceIdle ==
    [this |-> NewDietaryFlags([f \in FlagNames |-> Undefined]),
     requirements |-> [f \in FlagNames |-> Undefined], out |-> NotCalled]

NutritionIdle ==
    [params |-> [f \in NutrientNames |-> Undefined],
     out |-> [state |-> NotCalled, value |-> NoNutrition]]

NoExecution == [state |-> "none"]

RepoIdle ==
    /\ recipes = << >>
    /\ nextId = 1
    /\ collection = << >>
    /\ creating = {}
    /\ strictQuery = TRUE
    /\ repoLast = NoRepoCall
    /\ execution = NoExecution

ValuesIdle ==
    /\ calc = CalcIdle
    /\ compliance = ComplianceIdle
    /\ nutrition = NutritionIdle

Init ==
    /\ InvInit
    /\ RepoIdle
    /\ RecipeIdle
    /\ ValuesIdle

InitCalc ==
    /\ InvInit
    /\ RepoIdle
    /\ RecipeIdle
    /\ calc \in [item : CalcArguments, at : Dates, out : {NotCalculated}]
    /\ compliance = ComplianceIdle
    /\ nutrition = NutritionIdle

InitCompliance ==
    /\ InvInit
    /\ RepoIdle
    /\ RecipeIdle
    /\ calc = CalcIdle
    /\ compliance \in
          [this : {NewDietaryFlags(p) : p \in [FlagNames -> {Undefined, Bool(TRUE)}]},
           requirements : [FlagNames -> {Undefined, Bool(FALSE), Bool(TRUE)}],
           out : {NotCalled}]
    /\ nutrition = NutritionIdle

InitRecipe ==
    /\ InvInit
    /\ RepoIdle
    /\ recipe \in Recipes
    /\ recipeLast = [NoCall EXCEPT !.before = recipe]
    /\ adjusts = 0
    /\ ValuesIdle

InitNutrition ==
    /\ InvInit
    /\ RepoIdle
    /\ RecipeIdle
    /\ calc = CalcIdle
    /\ compliance = ComplianceIdle
    /\ nutrition \in
          [params : NutrientParams, out : {[state |-> NotCalled, value |-> NoNutrition]}]

InitMongo ==
    /\ InvInit
    /\ RecipeIdle
    /\ ValuesIdle
    /\ recipes = << >>
    /\ nextId = 1
    /\ collection \in Collections
    /\ creating = {}
    /\ strictQuery \in BOOLEAN
    /\ repoLast = [NoRepoCall EXCEPT !.before = collection]
    /\ execution = NoExecution

InvNext ==
    \/ CreateInventoryItem
    \/ UpdateInventoryItem
    \/ PatchInventoryItem
    \/ GetInventoryItem
    \/ DeleteInventoryItem
    \/ Tick

RecipeNext ==
    \/ Validate
    \/ UpdateNutrition
    \/ IsVegetarian
    \/ IsHalal
    \/ HasAllergens
    \/ AdjustServingSize

\* deactivation, between the two other methods that write the recipe
InactiveNext ==
    \/ MarkAsInactive
    \/ UpdateNutrition
    \/ AdjustServingSize

Next ==
    \/ InvNext
    \/ RecipeNext
    \/ MarkAsInactive
    \/ CalculateStatus
    \/ IsCompliantWith
    \/ NutritionNext
    \/ PatchFinds
    \/ PatchWrites
    \/ StatsStarts
    \/ StatsCounts
    \/ MockNext
    \/ MongoNext
    \/ Execute

SpecInventory == Init /\ [][InvNext]_vars

SpecPatches == Init /\ [][PatchesNext]_vars

SpecStats == Init /\ [][StatsNext]_vars

SpecRecipe == InitRecipe /\ [][RecipeNext]_vars

SpecInactive == InitRecipe /\ [][InactiveNext]_vars

SpecCalc == InitCalc /\ [][CalculateStatus]_vars

SpecCompliance == InitCompliance /\ [][IsCompliantWith]_vars

SpecNutrition == InitNutrition /\ [][NutritionNext]_vars

SpecMock == Init /\ [][MockNext]_vars

SpecMongo == InitMongo /\ [][MongoNext]_vars

SpecUseCase == Init /\ [][UseCaseNext]_vars

\* the two repositories driven by one caller: each call is made on the mock
\* and then, with the same arguments, on the Mongo repository
SameCall ==
    /\ repoLast'.op = repoLast.op
    /\ repoLast'.id = repoLast.id
    /\ repoLast'.arg = repoLast.arg

BothNext ==
    \/ /\ repoLast.impl # "mock"
       /\ \/ MockSave /\ repoLast'.arg = Porridge
          \/ MockUpdate /\ repoLast'.arg \in MongoUpdates
          \/ MockDelete
          \/ MockFindAll /\ repoLast'.arg \in MongoFindAllArguments
    \/ /\ repoLast.impl = "mock"
       /\ MongoSave \/ MongoUpdate \/ MongoDelete \/ MongoFindAll
       /\ SameCall
    \/ CreateSettles

SpecBoth == Init /\ [][BothNext]_vars

Spec == Init /\ [][Next]_vars

-----------------------------------------------------------------------------
(* Inventory status claims *)

\* the status derivation as section 4.4 states it, on a stored document
ExpiredAt(e, at) == e.t = "date" /\ e.v < at
StatusDerivation(q, r, e, at) ==
    CASE ExpiredAt(e, at) -> EXPIRED
      [] ~ExpiredAt(e, at) /\ q = 0 -> OUT_OF_STOCK
      [] ~ExpiredAt(e, at) /\ q # 0 /\ q <= r -> LOW_STOCK
      [] OTHER -> ACTIVE

Calculated == calc.out # NotCalculated
CalcExpired == calc.item.expiryDate.t = "date" /\ calc.item.expiryDate.v < calc.at
CalcLow ==
    /\ calc.item.reorderLevel.t = "number"
    /\ calc.item.quantity.v <= calc.item.reorderLevel.v

\* C1: _calculateStatus always returns one of the four statuses, with fixed
\* precedence: EXPIRED iff expiryDate is set and earlier than now; else
\* OUT_OF_STOCK iff quantity = 0; else LOW_STOCK iff quantity <= reorderLevel;
\* else ACTIVE. A past expiryDate with quantity 0 is EXPIRED, (5, 10, no expiry)
\* is LOW_STOCK and (20, 10, no expiry) is ACTIVE.
C1_StatusPrecedence ==
    Calculated =>
        /\ calc.out \in INVENTORY_STATUS
        /\ (calc.out = EXPIRED) <=> CalcExpired
        /\ (calc.out = OUT_OF_STOCK) <=> (~CalcExpired /\ calc.item.quantity.v = 0)
        /\ (calc.out = LOW_STOCK) <=>
              (~CalcExpired /\ calc.item.quantity.v # 0 /\ CalcLow)
        /\ (calc.out = ACTIVE) <=>
              (~CalcExpired /\ calc.item.quantity.v # 0 /\ ~CalcLow)
        /\ (calc.item.expiryDate \in {Undefined, Null}
              /\ calc.item.reorderLevel = Num(10)) =>
                 /\ calc.item.quantity = Num(5) => calc.out = LOW_STOCK
                 /\ calc.item.quantity = Num(20) => calc.out = ACTIVE

C1_Witness ==
    /\ Calculated
    /\ CalcExpired
    /\ calc.item.quantity = Num(0)
    /\ calc.out = EXPIRED

Written == invLast.op \in {"create", "put", "patch"} /\ invLast.res \in {200, 201}
StoredItem == items[invLast.id]

\* C2: right after a successful create, PUT or PATCH the stored status is the
\* status derivation applied to the stored quantity, reorderLevel and
\* expiryDate at that instant.
C2_StoredStatusIsDerived ==
    Written =>
        StoredItem.status =
            Str(StatusDerivation(StoredItem.quantity.v, StoredItem.reorderLevel.v,
                                 StoredItem.expiryDate, invLast.at))

Patched == invLast.op = "patch" /\ invLast.res = 200
MergedView(f) ==
    IF invLast.body[f] # Undefined THEN invLast.body[f] ELSE invLast.existing[f]

\* C3: patchInventoryItem evaluates the status on the merged view: for each of
\* quantity, reorderLevel and expiryDate the value of the patch body if
\* provided, and the persisted value otherwise.
C3_PatchUsesMergedView ==
    Patched =>
        \A f \in {"quantity", "reorderLevel", "expiryDate"} :
            invLast.calcInput[f] = MergedView(f)

\* C4: a status supplied in the body of a create, PUT or PATCH never determines
\* the stored status: what is stored is the status the handler derived, and a
\* PATCH {quantity: 0, status: ACTIVE} of an unexpired item stores OUT_OF_STOCK.
C4_StatusNotSettable ==
    Written =>
        /\ StoredItem.status = invLast.status
        /\ invLast.status = Str(_calculateStatus(invLast.calcInput, invLast.at))
        /\ (/\ Patched
            /\ invLast.body.quantity = Num(0)
            /\ invLast.body.status = Str(ACTIVE)
            /\ ~ExpiredAt(invLast.calcInput.expiryDate, invLast.at)) =>
               StoredItem.status = Str(OUT_OF_STOCK)

C4_Witness ==
    /\ Patched
    /\ invLast.body.quantity = Num(0)
    /\ invLast.body.status = Str(ACTIVE)
    /\ StoredItem.status = Str(OUT_OF_STOCK)

-----------------------------------------------------------------------------
(* Recipe claims *)

Before == recipeLast.before
HasVisibleChar(x) == x.t = "string" /\ \E i \in DOMAIN x.s : x.s[i] # " "
NameRule == HasVisibleChar(Before.name)
IngredientRule == Before.ingredients.t = "array" /\ Len(Before.ingredients.s) >= 1
InstructionRule == HasVisibleChar(Before.instructions)
ServingRule == ~(Before.servingSize.t = "number" /\ Before.servingSize.v <= 0)

\* C5: validate() checks name, ingredients, instructions, servingSize in that
\* order and throws the error of the first failing rule; it returns true exactly
\* when all four pass, never returns false, and leaves the recipe as it was.
C5_ValidateOrder ==
    recipeLast.op = "validate" =>
        /\ recipeLast.out # "false"
        /\ (recipeLast.out = "true") <=>
              (NameRule /\ IngredientRule /\ InstructionRule /\ ServingRule)
        /\ ~NameRule => recipeLast.out = "Recipe name is required"
        /\ (NameRule /\ ~IngredientRule) =>
              recipeLast.out = "Recipe must have at least one ingredient"
        /\ (NameRule /\ IngredientRule /\ ~InstructionRule) =>
              recipeLast.out = "Instructions are required"
        /\ (NameRule /\ IngredientRule /\ InstructionRule /\ ~ServingRule) =>
              recipeLast.out = "Serving size must be greater than 0"
        /\ recipe = Before

C5_Witness ==
    /\ recipeLast.op = "validate"
    /\ Before.ingredients = Array(<< >>)
    /\ NameRule /\ InstructionRule /\ ServingRule
    /\ recipeLast.out = "Recipe must have at least one ingredient"

Adjusted == recipeLast.op = "adjustServingSize"

\* C6: adjustServingSize(n) with n <= 0 fails (the call throws) and leaves
\* servingSize and every ingredient quantity unchanged; stated for recipes that
\* have an ingredient list.
C6_AdjustRejectsNonPositive ==
    (Adjusted /\ recipeLast.n <= 0 /\ Before.ingredients.t = "array") =>
        /\ recipeLast.out # "undefined"
        /\ recipe.servingSize = Before.servingSize
        /\ recipe.ingredients = Before.ingredients

\* new = old * n / s, on fractions; Infinity and NaN stay what they are
ScaledBy(old, new, n, s) ==
    IF old.k = "finite"
    THEN new.k = "finite" /\ new.n * old.d * s = old.n * n * new.d
    ELSE new = old

\* C7: with servingSize s > 0 and n > 0, adjustServingSize(n) multiplies every
\* ingredient quantity by n/s, sets servingSize to n and keeps the number and
\* order of the ingredients and their name, unit and isEssential (servingSize 4,
\* quantity 100, n = 8 gives quantity 200 and servingSize 8).
C7_AdjustScales ==
    (/\ Adjusted
     /\ recipeLast.n > 0
     /\ Before.servingSize.t = "number" /\ Before.servingSize.v > 0
     /\ Before.ingredients.t = "array") =>
        /\ recipeLast.out = "undefined"
        /\ recipe.servingSize = Num(recipeLast.n)
        /\ recipe.ingredients.t = "array"
        /\ Len(recipe.ingredients.s) = Len(Before.ingredients.s)
        /\ \A i \in DOMAIN Before.ingredients.s :
              LET old == Before.ingredients.s[i]
                  new == recipe.ingredients.s[i]
              IN  /\ new.name = old.name
                  /\ new.unit = old.unit
                  /\ new.isEssential = old.isEssential
                  /\ ScaledBy(old.quantity, new.quantity, recipeLast.n,
                              Before.servingSize.v)
                  /\ (/\ Before.servingSize = Num(4)
                      /\ recipeLast.n = 8
                      /\ old.quantity = Fraction(100, 1)) =>
                         new.quantity = Fraction(200, 1)

C7_Witness ==
    /\ Adjusted
    /\ Before.servingSize = Num(4)
    /\ recipeLast.n = 8
    /\ Before.ingredients = Array(<<Rice, Salt>>)
    /\ recipe.servingSize = Num(8)
    /\ recipe.ingredients.s[1].quantity = Fraction(200, 1)
    /\ recipe.ingredients.s[2].quantity = Fraction(6, 1)

\* C8: isHalal() returns true exactly when the recipe's DietaryFlags has
\* halal = true.
C8_IsHalalReadsHalal ==
    recipeLast.op = "isHalal" =>
        ((recipeLast.out = "true") <=> (Before.dietaryFlags["halal"] = Bool(TRUE)))

-----------------------------------------------------------------------------
(* Value object claims *)

\* C9: isCompliantWith(requirements) is true iff every one of the six flags
\* that is true in requirements is true on this; absent or false flags of
\* requirements are ignored.
C9_CompliantIffAllRequired ==
    compliance.out # NotCalled =>
        ((compliance.out = "true") <=>
            \A f \in FlagNames :
                compliance.requirements[f] = Bool(TRUE) =>
                    compliance.this[f] = Bool(TRUE))

Negative(x) == x.t = "number" /\ x.v < 0

\* C10: constructing a NutritionalInfo fails iff at least one of calories,
\* protein, carbs, fats is negative; a negative fiber or sugar alone never
\* makes it fail, and omitted fields are 0.
C10_NutritionConstructor ==
    nutrition.out.state # NotCalled =>
        /\ (nutrition.out.state = "thrown") <=>
              \E f \in {"calories", "protein", "carbs", "fats"} :
                  Negative(nutrition.params[f])
        /\ nutrition.out.state \in {"thrown", "built"}
        /\ nutrition.out.state = "built" =>
              \A f \in NutrientNames :
                  nutrition.out.value[f] =
                      IF nutrition.params[f] = Undefined THEN Num(0)
                      ELSE nutrition.params[f]

C10_Witness ==
    /\ nutrition.out.state = "built"
    /\ nutrition.params["fiber"] = Num(-1)
    /\ nutrition.params["sugar"] = Num(-1)
    /\ nutrition.params["calories"] = Undefined
    /\ nutrition.out.value["fiber"] = Num(-1)
    /\ nutrition.out.value["calories"] = Num(0)

-----------------------------------------------------------------------------
(* Recipe repository claims *)

\* the records of the repository the last call was made on, as Recipe entities
\* (what findById returns for each), now and before the call
Store ==
    IF repoLast.impl = "mongo" THEN toDomainList(collection) ELSE recipes
StoreBefore ==
    IF repoLast.impl = "mongo" THEN toDomainList(repoLast.before) ELSE repoLast.before
IdsOf(list) == {list[i].id : i \in DOMAIN list}
\* the identifiers findAll() lists
ListedIds ==
    IF repoLast.impl = "mongo"
    THEN IdsOf(MongoFindAllResult(<< >>, NoPagination).recipes)
    ELSE IdsOf(MockFindAllResult(<< >>, NoPagination).recipes)
Answered == repoLast.out.kind # "thrown"

\* C11: delete(id) is a soft delete: for an existing id it returns the recipe
\* with isActive = false, the number of stored records is unchanged, the
\* record is still stored under its id and findAll no longer lists it; for an
\* unknown id it returns null and changes nothing.
C11_SoftDelete ==
    (repoLast.op = "delete" /\ Answered) =>
        IF repoLast.id \in IdsOf(StoreBefore)
        THEN /\ repoLast.out.kind = "recipe"
             /\ repoLast.out.value.isActive = FALSE
             /\ Len(Store) = Len(StoreBefore)
             /\ repoLast.id \in IdsOf(Store)
             /\ repoLast.id \notin ListedIds
        ELSE /\ repoLast.out = ReturnedNull
             /\ Store = StoreBefore

\* the recipes a listing query returned
ListingResult ==
    IF repoLast.out.kind = "page" THEN repoLast.out.value.recipes
    ELSE IF repoLast.out.kind = "list" THEN repoLast.out.value
    ELSE << >>

\* C12: findAll, searchByIngredient and findByDietaryFlags return only
\* recipes whose isActive is true.
C12_ListingsOnlyActive ==
    repoLast.op \in {"findAll", "searchByIngredient", "findByDietaryFlags"} =>
        \A i \in DOMAIN ListingResult : ListingResult[i].isActive = TRUE

\* C13: save(recipe) of a recipe that passes validate() returns an entity with
\* a newly assigned, non-null identifier, and the repository then holds that
\* entity under the identifier (findById returns it).
C13_SaveAssignsIdentity ==
    (repoLast.op = "save" /\ validate(repoLast.arg) = "true") =>
        /\ repoLast.out.kind = "recipe"
        /\ repoLast.out.value.id # Null
        /\ repoLast.out.value.id \notin IdsOf(StoreBefore)
        /\ \E i \in DOMAIN Store : Store[i] = repoLast.out.value

Min(a, b) == IF a < b THEN a ELSE b
Max(a, b) == IF a > b THEN a ELSE b

\* the records that match the filters of the last findAll, in result order
Matching ==
    IF repoLast.impl = "mongo"
    THEN toDomainList(Reverse(
             SelectSeq(repoLast.before,
                       LAMBDA d : d.isActive
                           /\ (strictQuery
                               \/ \A f \in DOMAIN repoLast.arg.filters :
                                     repoLast.arg.filters[f] # Bool(TRUE)))))
    ELSE MockFiltered(repoLast.arg.filters)

\* C14: findAll(filters, {page, limit}) with page >= 1 and limit >= 1 returns
\* the matching records at positions (page-1)*limit .. (page-1)*limit+limit-1,
\* i.e. min(limit, max(0, total - (page-1)*limit)) of them, with total and
\* totalPages = ceil(total/limit), the page count being reported as totalPages
\* by both implementations.
C14_Pagination ==
    (repoLast.op = "findAll" /\ Answered) =>
        LET page == PageOf(repoLast.arg.pagination)
            limit == LimitOf(repoLast.arg.pagination)
            result == repoLast.out.value
            skip == (page - 1) * limit
        IN  /\ result.total = Len(Matching)
            /\ Len(result.recipes) = Min(limit, Max(0, result.total - skip))
            /\ \A i \in DOMAIN result.recipes : result.recipes[i] = Matching[skip + i]
            /\ "totalPages" \in DOMAIN result
            /\ result.totalPages = Ceil(result.total, limit)

\* C15: MongoRecipeRepository.findById, update and delete treat an identifier
\* that is no valid record identifier as not found: they return null, do not
\* throw and leave the collection unchanged; an error is wrapped and thrown
\* again only when the identifier is valid.
C15_InvalidIdIsNotFound ==
    (repoLast.impl = "mongo" /\ repoLast.op \in {"findById", "update", "delete"}) =>
        /\ repoLast.id = NotAnObjectId =>
              repoLast.out.kind = "null" /\ collection = repoLast.before
        /\ repoLast.out.kind = "thrown" => repoLast.id # NotAnObjectId

C15_Witness ==
    /\ repoLast.impl = "mongo"
    /\ repoLast.op = "update"
    /\ repoLast.id = NotAnObjectId
    /\ repoLast.arg = Revised
    /\ repoLast.out.kind = "null"
    /\ Len(collection) > 0

\* C16: findByDietaryFlags(flags) returns exactly the active recipes on which
\* every flag that is true in flags is true; flags that are absent or false
\* do not constrain the result.
C16_FindByDietaryFlags ==
    (repoLast.op = "findByDietaryFlags" /\ Answered) =>
        IdsOf(repoLast.out.value) =
            {Store[i].id : i \in
                {j \in DOMAIN Store :
                    /\ Store[j].isActive = TRUE
                    /\ \A f \in DOMAIN repoLast.arg :
                          repoLast.arg[f] = Bool(TRUE) =>
                              Store[j].dietaryFlags[f] = Bool(TRUE)}}

-----------------------------------------------------------------------------
(* CreateRecipeUseCase claims *)

\* the stores as the last execute found them and as it left them
Untouched == execution.after = execution.before

\* C17: execute validates the recipe it built before persisting it: when
\* validation fails, the error reaches the caller, save is never called and
\* the repository holds what it held; save is called only for a valid recipe
C17_ValidatesBeforePersisting ==
    execution.state = "done" =>
        LET validation == validate(RecipeOf(execution.recipeData))
        IN  /\ validation # "true" =>
                  /\ execution.out.kind = "thrown"
                  /\ execution.out.value = validation
                  /\ execution.saveCalls = 0
                  /\ Untouched
            /\ execution.saveCalls > 0 => validation = "true"

\* an invalid recipe was turned away from a repository that holds recipes
C17_Witness ==
    /\ execution.state = "done"
    /\ validate(RecipeOf(execution.recipeData)) # "true"
    /\ execution.out.kind = "thrown"
    /\ execution.saveCalls = 0
    /\ execution.before.recipes # << >>
    /\ recipes = execution.before.recipes

\* C18: with a nutrition service configured and at least one ingredient,
\* calculate is invoked exactly once before the save, and a successful result
\* is on the recipe that is saved; with none configured it is never invoked
C18_NutritionCalculatedOnce ==
    execution.state = "done" /\ execution.saveCalls = 1 =>
        IF execution.nutritionService = "null"
        THEN execution.calculateCalls = 0
        ELSE Len(execution.recipeData.ingredients.s) >= 1 =>
                 /\ execution.calculateCalls = 1
                 /\ execution.nutritionService = "resolves" =>
                        execution.saved.nutritionalInfo # NoInfo

-----------------------------------------------------------------------------
(* Inventory lookup claims *)

\* C20: GET, PUT, PATCH and DELETE /api/inventory/:id with an id that
\* identifies no stored item, an id that is no well-formed identifier
\* included, are answered with 404 (400 when the body fails validation first)
\* and change no stored item; 500 is kept for other failures
C20_UnknownIdIsNotFound ==
    [][(/\ invLast' # invLast
        /\ invLast'.op \in {"get", "put", "patch", "delete"}
        /\ invLast'.id \notin DOMAIN items
        /\ invLast'.res # 400)
       => (invLast'.res = 404 /\ items' = items)]_vars

-----------------------------------------------------------------------------
(* Recipe entity claims, continued *)

\* C21: markAsInactive is idempotent on isActive: after a call, the first or
\* a later one, isActive is false, no error was raised, and no field other
\* than isActive and updatedAt has changed
C21_MarkAsInactiveIdempotent ==
    recipeLast.op = "markAsInactive" =>
        /\ recipe.isActive = FALSE
        /\ recipeLast.out = "undefined"
        /\ DOMAIN recipe = DOMAIN recipeLast.before
        /\ \A f \in DOMAIN recipe \ {"isActive", "updatedAt"} :
              recipe[f] = recipeLast.before[f]

\* a call on a recipe that was inactive already, at a later instant
C21_Witness ==
    /\ recipeLast.op = "markAsInactive"
    /\ recipeLast.before.isActive = FALSE
    /\ recipe.isActive = FALSE
    /\ recipe.updatedAt > recipeLast.before.updatedAt
    /\ recipe.name = recipeLast.before.name

-----------------------------------------------------------------------------
(* Recipe repository claims, continued *)

\* C22: update(id, partial) changes only the fields present in partial: for
\* an existing id every record keeps its id, the updated record keeps every
\* field partial does not specify, the other records keep all of theirs and
\* the number of records is unchanged; for an unknown id it returns null and
\* changes nothing
C22_UpdateFrame ==
    (repoLast.op = "update" /\ Answered) =>
        IF repoLast.id \in IdsOf(StoreBefore)
        THEN /\ Len(Store) = Len(StoreBefore)
             /\ \A i \in DOMAIN StoreBefore :
                   /\ Store[i].id = StoreBefore[i].id
                   /\ \A f \in DOMAIN StoreBefore[i] :
                         (StoreBefore[i].id # repoLast.id \/ f \notin DOMAIN repoLast.arg)
                             => (f \in DOMAIN Store[i] /\ Store[i][f] = StoreBefore[i][f])
        ELSE /\ repoLast.out.kind = "null"
             /\ Store = StoreBefore

\* what a caller sees of a listed recipe
Seen(r) == [id |-> r.id, name |-> r.name, isActive |-> r.isActive]

\* C23: the mock and the Mongo repository are observationally equivalent:
\* after the same sequence of save, update, delete and findAll calls, findAll
\* returns the same set of recipes, with the same isActive values, from both,
\* for every combination of dietary-flag filters
C23_RepositoriesEquivalent ==
    (repoLast.impl = "mongo" /\ repoLast.op = "findAll" /\ Answered) =>
        LET mock == MockFindAllResult(repoLast.arg.filters, repoLast.arg.pagination).recipes
            mongo == repoLast.out.value.recipes
        IN  {Seen(mock[i]) : i \in DOMAIN mock} = {Seen(mongo[i]) : i \in DOMAIN mongo}

\* C24: every recipe that passes validate() is accepted by the persistence
\* layer: the document toPersistence makes of it has every required path of
\* RecipeSchema and breaks none of its type, length, minimum and enum rules
C24_ValidatedIsStorable ==
    (execution.state = "done" /\ execution.saveCalls = 1) =>
        LET persistenceData == toPersistence(execution.saved)
        IN  /\ validate(execution.saved) = "true"
            /\ CastFailures(persistenceData) = {}
            /\ ValidatorFailures(persistenceData) = {}
            /\ MissingRequired(persistenceData) = {}

\* C25: MongoRecipeRepository.save is all-or-nothing: a document is created
\* only by a call that resolves with the saved entity; after a call that
\* rejected with 'Failed to save recipe', and after any call that is no save,
\* the collection has gained no document, however its create() calls settled
C25_SaveAllOrNothing ==
    (repoLast.impl = "mongo" /\ ~(repoLast.op = "save" /\ repoLast.out.kind = "recipe")) =>
        /\ Len(collection) = Len(repoLast.before)
        /\ \A i \in DOMAIN collection : collection[i]._id = repoLast.before[i]._id

\* a save has rejected, its create() has settled since, and the collection
\* holds what it held
C25_Witness ==
    /\ repoLast.impl = "mongo"
    /\ repoLast.op = "save"
    /\ repoLast.out.kind = "thrown"
    /\ creating = {}
    /\ Len(collection) > 0
    /\ collection = repoLast.before

\* the identifiers some listing of the repository last called returns:
\* findAll(), findByDietaryFlags({}) or searchByIngredient of a stored name
ShownIds ==
    ListedIds
    \cup (IF repoLast.impl = "mongo" THEN IdsOf(toDomainList(Find(<< >>)))
          ELSE IdsOf(MockFindByDietaryFlagsResult(<< >>)))
    \cup (IF repoLast.impl = "mongo"
          THEN IdsOf(toDomainList(SelectSeq(collection,
                                            LAMBDA d : d.isActive /\ HasIngredient(d, "ric"))))
          ELSE IdsOf(MockSearchByIngredientResult("ric")))

\* C28: a recipe that delete(id) has soft-deleted does not appear again in
\* findAll, searchByIngredient or findByDietaryFlags after a later update or
\* delete call, an update carrying an active Recipe entity included
C28_SoftDeleteSticks ==
    [][(/\ repoLast.op = "delete"
        /\ repoLast.out.kind = "recipe"
        /\ repoLast' # repoLast
        /\ repoLast'.op \in {"update", "delete"})
       => repoLast.id \notin ShownIds']_vars

\* C30: in MockRecipeRepository the stored recipes have pairwise distinct
\* ids, nextId is greater than every stored id, update and delete change
\* neither a record's id nor the number of records, and save adds exactly one
C30_MockIdentifiers ==
    /\ \A i, j \in DOMAIN recipes : i # j => recipes[i].id # recipes[j].id
    /\ \A i \in DOMAIN recipes : recipes[i].id.t = "id" /\ recipes[i].id.v < nextId
    /\ (repoLast.impl = "mock" /\ repoLast.op \in {"update", "delete"}) =>
          /\ Len(recipes) = Len(repoLast.before)
          /\ \A i \in DOMAIN recipes : recipes[i].id = repoLast.before[i].id
    /\ (repoLast.impl = "mock" /\ repoLast.op = "save") =>
          Len(recipes) = Len(repoLast.before) + 1

\* a full store and an update that changed its last record
C30_Witness ==
    /\ Len(recipes) = MaxRecipes
    /\ repoLast.impl = "mock"
    /\ repoLast.op = "update"
    /\ repoLast.out.kind = "recipe"
    /\ repoLast.id = recipes[MaxRecipes].id
    /\ recipes[MaxRecipes] # repoLast.before[MaxRecipes]

-----------------------------------------------------------------------------
(* NutritionalInfo claims, continued *)

\* C29: NutritionalInfo serialization round-trips: the value constructed from
\* n.toJSON() equals n; equals is reflexive and symmetric, and false for an
\* absent argument
C29_ToJSONRoundTrip ==
    "equal" \in DOMAIN nutrition =>
        /\ nutrition.against = "revived" =>
              nutrition.other.state = "built" /\ nutrition.equal
        /\ nutrition.against = "itself" => nutrition.equal
        /\ nutrition.against = "absent" => ~nutrition.equal
        /\ nutrition.other.state = "built" => (nutrition.equal <=> nutrition.converse)

-----------------------------------------------------------------------------
(* Inventory claims on overlapping requests *)

NoPatchInFlight == \A c \in Clients : flight.patch[c].state = "idle"

\* C26: when patch requests on the same item overlap, then in every
\* interleaving of their find and update steps the status stored at the end
\* is the status derivation applied to the quantity, reorderLevel and
\* expiryDate stored at the end
C26_ConcurrentPatchesDerived ==
    NoPatchInFlight =>
        \A id \in DOMAIN items :
            items[id].status =
                Str(StatusDerivation(items[id].quantity.v, items[id].reorderLevel.v,
                                     items[id].expiryDate, now))

\* C27: the counts getInventoryStats returns partition the inventory, also
\* when create, patch and delete requests come between its five queries
C27_StatsPartition ==
    flight.stats.state = "returned" =>
        flight.stats.value["total"] =
            flight.stats.value["active"] + flight.stats.value["lowStock"]
            + flight.stats.value["outOfStock"] + flight.stats.value["expired"]

=============================================================================
